---- MODULE Spec2Model ----
(***************************************************************************)
(* NetworkAnalyzer (services/networkAnalyzer): the graph index built by    *)
(* the constructor, the per-node centrality metrics, the aggregate         *)
(* statistics and the robustness simulator.                                *)
(*                                                                         *)
(* Numbers.  The program computes with IEEE doubles.  Here                 *)
(*  - betweenness, PageRank, DomiRank and avgClustering, whose values are  *)
(*    sums and products of rounded results, are IEEE doubles computed      *)
(*    operation by operation in the order of the code;                     *)
(*  - a single quotient of two integers (density, the path average, NGC,   *)
(*    the removal ratio, closeness) is the exact rational [n, d] in lowest *)
(*    terms with d > 0; d = 0 encodes the non-finite doubles: 0/0 is NaN,  *)
(*    1/0 is Infinity and -1/0 is -Infinity.                               *)
(* Node ids are integers; an id outside the node list is an unknown id.    *)
(***************************************************************************)
EXTENDS Integers, Sequences, FiniteSets, TLC

\* Bounds of the explored inputs.
MaxNodes == 3
MaxEdges == 2
MaxWeight == 1
MaxStarLeaves == 3
MaxShuffle == 4
MaxRepeatEdges == 1

\* Program constants.
steps == 20
PageRankIterations == 50
PageRankAlphaPct == 85
DomiRankIterations == 100
DomiRankAlphaPct == 10
DomiRankBetaPct == 10
DomiRankTheta == 1

(***************************************************************************)
(* Arithmetic helpers.                                                     *)
(***************************************************************************)
Abs(a) == IF a < 0 THEN -a ELSE a
Sign(a) == IF a > 0 THEN 1 ELSE IF a < 0 THEN -1 ELSE 0
Max(a, b) == IF a >= b THEN a ELSE b

RECURSIVE GCD(_, _)
GCD(a, b) == IF b = 0 THEN a ELSE GCD(b, a % b)

\* The double a/b for integers a and b > 0, in lowest terms.
Rat(a, b) ==
  LET g == GCD(Abs(a), b)
  IN  [n |-> a \div g, d |-> b \div g]

NaN == [n |-> 0, d |-> 0]
Infinity == [n |-> 1, d |-> 0]
NegInfinity == [n |-> -1, d |-> 0]
Zero == [n |-> 0, d |-> 1]
IsFinite(x) == x.d > 0

\* JavaScript a / b for integers a >= 0 and b; bNegZero says that a zero b
\* is the double -0 (the product 0 * -1).
JsDivide(a, b, bNegZero) ==
  IF b = 0
    THEN [n |-> IF bNegZero THEN -Sign(a) ELSE Sign(a), d |-> 0]
    ELSE Rat(a * Sign(b), Abs(b))

\* x / k for a finite rational x and an integer k >= 0 (k = 0 is +0).
RatDivInt(x, k) ==
  IF k = 0 THEN [n |-> Sign(x.n), d |-> 0] ELSE Rat(x.n, x.d * k)

RatAdd(x, y) == Rat(x.n * y.d + y.n * x.d, x.d * y.d)
\* x < y, x <= y for finite rationals
RatLess(x, y) == x.n * y.d < y.n * x.d
RatLeq(x, y) == x.n * y.d <= y.n * x.d

\* Sums over a finite set S of integer ids, taken by halving the range of
\* the ids.
MinOf(S) == CHOOSE y \in S : \A z \in S : y <= z
MaxOf(S) == CHOOSE y \in S : \A z \in S : z <= y

RECURSIVE SumRange(_, _, _, _)
SumRange(S, f, lo, hi) ==
  IF lo > hi THEN 0
  ELSE IF lo = hi THEN (IF lo \in S THEN f[lo] ELSE 0)
  ELSE LET mid == (lo + hi) \div 2
       IN  SumRange(S, f, lo, mid) + SumRange(S, f, mid + 1, hi)

SumOver(S, f) == IF S = {} THEN 0 ELSE SumRange(S, f, MinOf(S), MaxOf(S))

RECURSIVE RatSumRange(_, _, _, _)
RatSumRange(S, f, lo, hi) ==
  IF lo > hi THEN Zero
  ELSE IF lo = hi THEN (IF lo \in S THEN f[lo] ELSE Zero)
  ELSE LET mid == (lo + hi) \div 2
       IN  RatAdd(RatSumRange(S, f, lo, mid), RatSumRange(S, f, mid + 1, hi))

RatSumOver(S, f) == IF S = {} THEN Zero ELSE RatSumRange(S, f, MinOf(S), MaxOf(S))

\* The function f with every value computed.
Eager(f) == f @@ << >>
\* e, evaluated after v is: the running value of a loop is computed before
\* the next round starts.
After(v, e) == IF v = v THEN e ELSE e

(***************************************************************************)
(* IEEE 754 doubles: the number type of betweenness, PageRank and          *)
(* DomiRank.  A double other than 0 is (-1)^s * (h * 2^LowBits + l) * 2^e  *)
(* with a 53-bit significand, 2^LowBits <= h < 2^(LowBits + 1) and         *)
(* 0 <= l < 2^LowBits; the results of +, -, * and / are rounded to the     *)
(* nearest double, ties to the even significand.  The doubles met here     *)
(* stay clear of overflow and of the subnormal range, and no -0 arises.    *)
(***************************************************************************)
RECURSIVE Pow2Of(_)
Pow2Of(k) == IF k = 0 THEN 1 ELSE 2 * Pow2Of(k - 1)
Pow2 == Eager([k \in 0..30 |-> Pow2Of(k)])
LowBits == 26
LowUnit == Pow2[LowBits]
HighUnit == Pow2[LowBits + 1]

Double(s, e, h, l) == [s |-> s, e |-> e, h |-> h, l |-> l]
DZero == Double(0, 0, 0, 0)
DNaN == Double(0, 0, -1, 0)
IsNaN(x) == x.h < 0
IsZero(x) == x.h = 0

\* The number of bits of h, 0 <= h < 2^31.
RECURSIVE BitLenIn(_, _, _)
BitLenIn(h, lo, hi) ==
  IF lo = hi THEN lo
  ELSE LET mid == (lo + hi) \div 2
       IN  IF h >= Pow2[mid] THEN BitLenIn(h, mid + 1, hi) ELSE BitLenIn(h, lo, mid)
BitLen(h) == BitLenIn(h, 0, 31)

\* l with bit 0 set when sticky holds: a bit that is not 0 lies below l.
Sticky(l, sticky) == IF sticky /\ l % 2 = 0 THEN l + 1 ELSE l

\* The double (-1)^s * (qh * 2^LowBits + ql) * 2^e or its upper neighbour:
\* rem holds the bits rounded away and half is the weight of the highest
\* of them; a tie goes to the even significand.
DNearest(s, e, qh, ql, rem, half) ==
  IF rem < half \/ (rem = half /\ ql % 2 = 0) THEN Double(s, e, qh, ql)
  ELSE IF ql + 1 < LowUnit THEN Double(s, e, qh, ql + 1)
  ELSE IF qh + 1 < HighUnit THEN Double(s, e, qh + 1, 0)
  ELSE Double(s, e + 1, LowUnit, 0)

\* The same for h of LowBits + 1 + sh bits: sh bits are rounded away, or
\* -sh bits are added below.
DNormal(s, e, h, l, sh) ==
  IF sh <= 0
    THEN Double(s, e + sh, h * Pow2[-sh] + l \div Pow2[LowBits + sh],
                (l % Pow2[LowBits + sh]) * Pow2[-sh])
    ELSE DNearest(s, e + sh, h \div Pow2[sh],
                  (h % Pow2[sh]) * Pow2[LowBits - sh] + l \div Pow2[sh],
                  l % Pow2[sh], Pow2[sh - 1])

\* The double nearest to (-1)^s * (h * 2^LowBits + l) * 2^e, ties to even,
\* for 0 <= h < 2^31 and 0 <= l < 2^LowBits.
RECURSIVE DRound(_, _, _, _)
DRound(s, e, h, l) ==
  IF h = 0
    THEN IF l = 0 THEN DZero ELSE DRound(s, e - LowBits, l, 0)
    ELSE DNormal(s, e, h, l, BitLen(h) - (LowBits + 1))

\* The double of an integer.
DFromInt(n) ==
  DRound(IF n < 0 THEN 1 ELSE 0, 0, Abs(n) \div LowUnit, Abs(n) % LowUnit)
DOne == DFromInt(1)

\* |y| <= |x| for doubles other than 0
MagLeq(y, x) ==
  \/ y.e < x.e
  \/ y.e = x.e /\ (y.h < x.h \/ (y.h = x.h /\ y.l <= x.l))
\* The one of x and y of the larger magnitude, and the other one.
Larger(x, y) == IF MagLeq(y, x) THEN x ELSE y
Smaller(x, y) == IF MagLeq(y, x) THEN y ELSE x

\* h * 2^LowBits + l shifted right by d bits; bit 0 of the result is set
\* when a bit that is not 0 was shifted out.
RECURSIVE ShiftRightSticky(_, _, _, _)
ShiftRightSticky(h, l, d, lost) ==
  IF d >= LowBits
    THEN ShiftRightSticky(h \div LowUnit, h % LowUnit, d - LowBits, lost \/ l # 0)
    ELSE [h |-> h \div Pow2[d],
          l |-> Sticky((h % Pow2[d]) * Pow2[LowBits - d] + l \div Pow2[d],
                       lost \/ l % Pow2[d] # 0)]

\* The significand with GuardBits more bits below it.
GuardBits == 3
WithGuard(x) ==
  [h |-> x.h * Pow2[GuardBits] + x.l \div Pow2[LowBits - GuardBits],
   l |-> (x.l % Pow2[LowBits - GuardBits]) * Pow2[GuardBits]]

\* The sum (same) or the difference of the significands A and B, B <= A,
\* as a double of sign s and exponent e.
AddAligned(s, e, A, B, same) ==
  IF same
    THEN DRound(s, e, A.h + B.h + (A.l + B.l) \div LowUnit, (A.l + B.l) % LowUnit)
  ELSE IF A = B THEN DZero
  ELSE IF A.l >= B.l THEN DRound(s, e, A.h - B.h, A.l - B.l)
  ELSE DRound(s, e, A.h - B.h - 1, A.l + LowUnit - B.l)

\* a + b for |b| <= |a|, neither of them 0
AddOrdered(a, b) ==
  IF a.e - b.e >= 2 * LowBits + 2 * GuardBits THEN a
  ELSE AddAligned(a.s, a.e - GuardBits, WithGuard(a),
                  ShiftRightSticky(WithGuard(b).h, WithGuard(b).l, a.e - b.e, FALSE),
                  a.s = b.s)

\* x + y
DAdd(x, y) ==
  IF IsNaN(x) \/ IsNaN(y) THEN DNaN
  ELSE IF IsZero(x) THEN y
  ELSE IF IsZero(y) THEN x
  ELSE AddOrdered(Larger(x, y), Smaller(x, y))

DNeg(x) == IF IsNaN(x) \/ IsZero(x) THEN x ELSE [x EXCEPT !.s = 1 - x.s]
\* x - y
DSub(x, y) == DAdd(x, DNeg(y))
\* x < y (false when one of them is NaN)
DLess(x, y) ==
  IF IsNaN(x) \/ IsNaN(y) THEN FALSE
  ELSE LET d == DSub(x, y) IN ~IsZero(d) /\ d.s = 1

\* The significand in four digits of DigitBits bits, the lowest first.
DigitBits == 13
DigitUnit == Pow2[DigitBits]
Digits(x) ==
  <<x.l % DigitUnit, x.l \div DigitUnit, x.h % DigitUnit, x.h \div DigitUnit>>

\* The product of the significands of digits a and b, as a double of sign
\* s and exponent e: t0, ..., t6 are the digit sums with their carries.
Product(s, e, a, b) ==
  LET t0 == a[1] * b[1]
      t1 == a[1] * b[2] + a[2] * b[1] + t0 \div DigitUnit
      t2 == a[1] * b[3] + a[2] * b[2] + a[3] * b[1] + t1 \div DigitUnit
      t3 == a[1] * b[4] + a[2] * b[3] + a[3] * b[2] + a[4] * b[1]
              + t2 \div DigitUnit
      t4 == a[2] * b[4] + a[3] * b[3] + a[4] * b[2] + t3 \div DigitUnit
      t5 == a[3] * b[4] + a[4] * b[3] + t4 \div DigitUnit
      t6 == a[4] * b[4] + t5 \div DigitUnit
      keep == DigitBits - GuardBits
      low == (t3 % DigitUnit) \div Pow2[keep] + (t4 % DigitUnit) * Pow2[GuardBits]
               + (t5 % DigitUnit) * Pow2[GuardBits + DigitBits]
  IN  DRound(s, e + 3 * DigitBits + keep,
             low \div LowUnit + (t6 % DigitUnit) * Pow2[GuardBits]
               + (t6 \div DigitUnit) * Pow2[GuardBits + DigitBits],
             Sticky(low % LowUnit,
                    \/ t0 % DigitUnit # 0 \/ t1 % DigitUnit # 0
                    \/ t2 % DigitUnit # 0 \/ (t3 % DigitUnit) % Pow2[keep] # 0))

\* x * y
DMul(x, y) ==
  IF IsNaN(x) \/ IsNaN(y) THEN DNaN
  ELSE IF IsZero(x) \/ IsZero(y) THEN DZero
  ELSE Product((x.s + y.s) % 2, x.e + y.e, Digits(x), Digits(y))

\* One step of the long division by dh * 2^LowBits + dl: the remainder
\* rh, rl loses the divisor when geq holds and is doubled, and the quotient
\* qh, ql takes the bit.
QuotientStep(st, dh, dl, geq) ==
  LET sh == IF geq THEN (IF st.rl >= dl THEN st.rh - dh ELSE st.rh - dh - 1)
            ELSE st.rh
      sl == IF geq THEN (IF st.rl >= dl THEN st.rl - dl ELSE st.rl + LowUnit - dl)
            ELSE st.rl
      nql == 2 * st.ql + (IF geq THEN 1 ELSE 0)
  IN  [rh |-> 2 * sh + (2 * sl) \div LowUnit, rl |-> (2 * sl) % LowUnit,
       qh |-> 2 * st.qh + nql \div LowUnit, ql |-> nql % LowUnit]
QuotientBit(st, dh, dl) ==
  QuotientStep(st, dh, dl, st.rh > dh \/ (st.rh = dh /\ st.rl >= dl))

\* i more steps of the long division from st.  The i steps are taken as two
\* runs of i \div 2 and i - i \div 2 steps.
RECURSIVE QuotientBits(_, _, _, _)
QuotientBits(st, dh, dl, i) ==
  IF i = 0 THEN st
  ELSE IF i = 1 THEN QuotientBit(st, dh, dl)
  ELSE After(st, QuotientBits(QuotientBits(st, dh, dl, i \div 2), dh, dl,
                              i - i \div 2))

\* The quotient q as a double; bit 0 is set when the division leaves a
\* remainder.
Quotient(s, e, q) == DRound(s, e, q.qh, Sticky(q.ql, q.rh # 0 \/ q.rl # 0))

\* x / y for y other than 0
QuotientLen == 2 * LowBits + GuardBits + 1
DDiv(x, y) ==
  IF IsNaN(x) \/ IsNaN(y) \/ IsZero(y) THEN DNaN
  ELSE IF IsZero(x) THEN DZero
  ELSE Quotient((x.s + y.s) % 2, x.e - y.e - (QuotientLen - 1),
                QuotientBits([rh |-> x.h, rl |-> x.l, qh |-> 0, ql |-> 0], y.h, y.l,
                             QuotientLen))

\* The digits a divided by k < 2^DigitBits, digit by digit, with j more bits
\* below the quotient.
ShortDivide(s, e, a, k, j) ==
  LET u2 == (a[4] % k) * DigitUnit + a[3]
      u1 == (u2 % k) * DigitUnit + a[2]
      u0 == (u1 % k) * DigitUnit + a[1]
      r == u0 % k
      ql == (u1 \div k) * DigitUnit + u0 \div k
  IN  DRound(s, e - j,
             ((a[4] \div k) * DigitUnit + u2 \div k) * Pow2[j]
               + ql \div Pow2[LowBits - j],
             Sticky((ql % Pow2[LowBits - j]) * Pow2[j] + (r * Pow2[j]) \div k,
                    (r * Pow2[j]) % k # 0))

\* x / k for an integer k > 0: digit by digit when k has one digit.
DDivInt(x, k) ==
  IF IsNaN(x) THEN DNaN
  ELSE IF IsZero(x) THEN DZero
  ELSE IF k >= DigitUnit THEN DDiv(x, DFromInt(k))
  ELSE ShortDivide(x.s, x.e, Digits(x), k, BitLen(k) + GuardBits)

\* The double a / b of two integers, b > 0.
DQuotient(a, b) == DDivInt(DFromInt(a), b)
\* The double of a finite rational [n, d].
DFromRat(x) == DQuotient(x.n, x.d)
\* Math.max(0, x): NaN for NaN
DMaxZero(x) == IF IsNaN(x) THEN DNaN ELSE IF x.s = 1 THEN DZero ELSE x
\* |x|
DAbs(x) == IF IsNaN(x) THEN DNaN ELSE [x EXCEPT !.s = 0]

\* m.get(x) used as a number: undefined, which a sum turns into NaN, for a
\* key x the map does not hold.
Get(m, x) == IF x \in DOMAIN m THEN m[x] ELSE DNaN

\* acc after "q.forEach(x => acc += m.get(x))" from position i of q on.
RECURSIVE DSumFrom(_, _, _, _)
DSumFrom(q, m, i, acc) ==
  IF IsNaN(acc) THEN DNaN
  ELSE IF i > Len(q) THEN acc
  ELSE DSumFrom(q, m, i + 1, DAdd(acc, Get(m, q[i])))

(***************************************************************************)
(* The graph index: constructor, lines 15-32.  A Set keeps its elements in *)
(* the order of their first insertion: it is a sequence without repeated   *)
(* entries.                                                                *)
(***************************************************************************)
NodeIds(ns) == {ns[i] : i \in 1..Len(ns)}
Members(q) == {q[i] : i \in 1..Len(q)}

\* The Set after q[1], ..., q[n] were added to the empty Set in this order.
SetOf(q) ==
  LET first == {i \in 1..Len(q) : \A j \in 1..(i - 1) : q[j] # q[i]}
  IN  [p \in 1..Cardinality(first) |->
         q[CHOOSE i \in first : Cardinality({j \in first : j < i}) = p - 1]]

\* this.adj: every node id gets a Set; an edge adds its target to the Set of
\* its source when the source is a node (adj.get(e.source)?.add(e.target)).
BuildAdj(ns, es) ==
  [v \in NodeIds(ns) |->
     LET out == SelectSeq(es, LAMBDA e : e.source = v)
     IN  SetOf([i \in 1..Len(out) |-> out[i].target])]

\* this.revAdj: likewise, the source is added to the Set of the target.
BuildRevAdj(ns, es) ==
  [v \in NodeIds(ns) |->
     LET inc == SelectSeq(es, LAMBDA e : e.target = v)
     IN  SetOf([i \in 1..Len(inc) |-> inc[i].source])]

\* this.weights: key "source->target", the last edge of a pair wins.
BuildWeights(es) ==
  [p \in {<<es[i].source, es[i].target>> : i \in 1..Len(es)} |->
     LET last == CHOOSE i \in 1..Len(es) :
                   /\ <<es[i].source, es[i].target>> = p
                   /\ \A j \in (i + 1)..Len(es) : <<es[j].source, es[j].target>> # p
     IN  es[last].weight]

\* The elements of adj.get(v), with "undefined" read as no element: the
\* reading of every adj.get(v)?.forEach(...) and adj.get(v)?.has(...).
Succ(a, v) == IF v \in DOMAIN a THEN Members(a[v]) ELSE {}
(***************************************************************************)
(* PageRank, lines 164-190.                                                *)
(***************************************************************************)
\* this.adj.get(neighbor)!.size of line 182 throws a TypeError when a
\* predecessor recorded in revAdj is not a node (adj.get is undefined).
PageRankThrows(ns, a, r) ==
  /\ PageRankIterations > 0
  /\ \E v \in NodeIds(ns) : \E nb \in Members(r[v]) : nb \notin DOMAIN a

\* The parameter alpha = 0.85.
PageRankAlpha == DQuotient(PageRankAlphaPct, 100)

\* One iteration of the loop of lines 169-187, for a graph index on which
\* line 182 does not throw.  share[nb] is pr.get(nb) / adj.get(nb).size.
PageRankStep(ns, a, r, pr) ==
  LET n == Len(ns)
      sinkPr == DSumFrom(SelectSeq(ns, LAMBDA v : Len(a[v]) = 0), pr, 1, DZero)
      share == Eager([nb \in {v \in NodeIds(ns) : Len(a[v]) > 0} |->
                        DDivInt(pr[nb], Len(a[nb]))])
      teleport == DDivInt(DSub(DOne, PageRankAlpha), n)
      sinkShare == DDivInt(sinkPr, n)
      next == [v \in NodeIds(ns) |->
                 DAdd(teleport,
                      DMul(PageRankAlpha,
                           DAdd(DSumFrom(r[v], share, 1, DZero), sinkShare)))]
  IN  Eager(next)

\* i iterations from pr.  The i steps are taken as two runs of i \div 2 and
\* i - i \div 2 steps, the first finished before the second starts.
RECURSIVE PageRankIterate(_, _, _, _, _)
PageRankIterate(ns, a, r, pr, i) ==
  IF i = 0 THEN pr
  ELSE IF i = 1 THEN PageRankStep(ns, a, r, pr)
  ELSE After(pr, PageRankIterate(ns, a, r, PageRankIterate(ns, a, r, pr, i \div 2),
                                 i - i \div 2))

\* The vector 1 / n of lines 167 and 199.
Uniform(ns) == Eager([v \in NodeIds(ns) |-> DQuotient(1, Len(ns))])

\* The returned map (when the call does not throw).
calculatePageRank(ns, a, r) ==
  PageRankIterate(ns, a, r, Uniform(ns), PageRankIterations)
(***************************************************************************)
(* DomiRank, lines 192-232.                                                *)
(***************************************************************************)
\* The parameters alpha = 0.1, beta = 0.1 and theta = 1.0.
DomiRankAlpha == DQuotient(DomiRankAlphaPct, 100)
DomiRankBeta == DQuotient(DomiRankBetaPct, 100)
theta == DFromInt(DomiRankTheta)

\* One iteration of the loop of lines 203-222.  gamma.get(x) of an id x
\* that is no node is undefined, and undefined or NaN in the sum makes the
\* new entry NaN: Math.max(0, NaN) is NaN.
DomiRankStep(ns, a, r, gamma) ==
  LET next == [v \in NodeIds(ns) |->
                 LET ki == Len(a[v]) + Len(r[v])
                     sumNeighbors == DSumFrom(r[v], gamma, 1,
                                              DSumFrom(a[v], gamma, 1, DZero))
                     currentVal == gamma[v]
                     delta == DSub(DMul(DomiRankAlpha,
                                        DSub(DMul(theta, DFromInt(ki)), sumNeighbors)),
                                   DMul(DomiRankBeta, currentVal))
                 IN  DMaxZero(DAdd(currentVal, delta))]
  IN  Eager(next)

RECURSIVE DomiRankIterate(_, _, _, _, _)
DomiRankIterate(ns, a, r, gamma, it) ==
  IF it = 0 THEN gamma
  ELSE IF it = 1 THEN DomiRankStep(ns, a, r, gamma)
  ELSE After(gamma,
             DomiRankIterate(ns, a, r, DomiRankIterate(ns, a, r, gamma, it \div 2),
                             it - it \div 2))

\* The vector after the last iteration, before the normalisation.
DomiRankRaw(ns, a, r) ==
  DomiRankIterate(ns, a, r, Uniform(ns), DomiRankIterations)

\* total of line 226: the entries added in the order of the node list.
DomiRankTotal(ns, gamma) == DSumFrom(ns, gamma, 1, DZero)

\* Lines 224-231: total is NaN when an entry is, and NaN > 0 is false.
DomiRankNormalised(ns, gamma, total) ==
  IF DLess(DZero, total)
    THEN Eager([v \in NodeIds(ns) |-> DDiv(gamma[v], total)])
    ELSE gamma
DomiRankReturned(ns, gamma) ==
  DomiRankNormalised(ns, gamma, DomiRankTotal(ns, gamma))

calculateDomiRank(ns, a, r) == DomiRankReturned(ns, DomiRankRaw(ns, a, r))
(***************************************************************************)
(* Breadth-first search over this.adj, as in lines 138-152 and 266-277:    *)
(* d.get(w) === -1 holds only for a node not yet reached, so a successor   *)
(* that is no node is skipped.                                             *)
(***************************************************************************)
RECURSIVE Levels(_, _, _)
Levels(a, frontier, seen) ==
  IF frontier = {} THEN << >>
  ELSE LET nxt == {w \in UNION {Succ(a, v) : v \in frontier} :
                     w \in DOMAIN a /\ w \notin seen}
       IN  <<frontier>> \o Levels(a, nxt, seen \cup nxt)

\* BFSLevels(a, s)[i] is the set of nodes with d = i - 1 from source s.
BFSLevels(a, s) == Levels(a, {s}, {s})

\* A slip in the count: the source counts as reached.
ReachableCountWithSource(L) ==
  SumOver(1..Len(L), [i \in 1..Len(L) |-> Cardinality(L[i])])
\* reachableCount and totalDist of the search from s.
ReachableCount(L) == SumOver(2..Len(L), [i \in 2..Len(L) |-> Cardinality(L[i])])
\* A slip in the distance: the level index instead of d.
TotalDistOffByOne(L) == SumOver(2..Len(L), [i \in 2..Len(L) |-> i * Cardinality(L[i])])
TotalDist(L) == SumOver(2..Len(L), [i \in 2..Len(L) |-> (i - 1) * Cardinality(L[i])])

(***************************************************************************)
(* Degrees, lines 59-69.                                                   *)
(***************************************************************************)
calculateInDegrees(ns, r) == [v \in NodeIds(ns) |-> Len(r[v])]
calculateOutDegrees(ns, a) == [v \in NodeIds(ns) |-> Len(a[v])]

(***************************************************************************)
(* Betweenness (Brandes), lines 71-128.  The search from s keeps d, sigma  *)
(* and P of lines 77-88 and the queue; queue.shift() reads the queue at a  *)
(* head position, and the entries before the head are the stack.           *)
(***************************************************************************)
\* Lines 81-90: the maps before the search from s.
SearchStart(ns, s) ==
  [d |-> Eager([v \in NodeIds(ns) |-> IF v = s THEN 0 ELSE -1]),
   sigma |-> Eager([v \in NodeIds(ns) |-> IF v = s THEN 1 ELSE 0]),
   P |-> Eager([v \in NodeIds(ns) |-> << >>]),
   queue |-> <<s>>]

\* A slip in the path count: one path to every node reached.
SigmaOnePath(sigma, v, w) == [sigma EXCEPT ![w] = 1]
\* Line 100: sigma.set(w, sigma.get(w) + sigma.get(v)).
SigmaAfter(sigma, v, w) == [sigma EXCEPT ![w] = @ + sigma[v]]

\* Lines 99-102: the successor w of v lies one step behind v.
Counted(st, v, w) ==
  IF st.d[w] = st.d[v] + 1
    THEN [st EXCEPT !.sigma = SigmaAfter(@, v, w), !.P[w] = Append(@, v)]
    ELSE st

\* Lines 95-102: the successor w of v.  d.get(w) is undefined for an id
\* that is no node, and neither comparison holds.
Discover(st, v, w) ==
  IF w \notin DOMAIN st.d THEN st
  ELSE IF st.d[w] = -1
    THEN Counted([st EXCEPT !.d[w] = st.d[v] + 1, !.queue = Append(@, w)], v, w)
    ELSE Counted(st, v, w)

\* Line 94: adj.get(v).forEach from position i of the Set on.
RECURSIVE Successors(_, _, _, _)
Successors(a, st, v, i) ==
  IF i > Len(a[v]) THEN st
  ELSE After(st, Successors(a, Discover(st, v, a[v][i]), v, i + 1))

\* Lines 91-104: the while loop from the head position on.
RECURSIVE Search(_, _, _)
Search(a, st, head) ==
  IF head > Len(st.queue) THEN st
  ELSE Search(a, Successors(a, st, st.queue[head], 1), head + 1)

\* Line 112: delta of the predecessor v of w.
Credited(st, delta, w, v) ==
  [delta EXCEPT ![v] = DAdd(@, DMul(DQuotient(st.sigma[v], st.sigma[w]),
                                    DAdd(DOne, delta[w])))]

\* Lines 111-113: P.get(w).forEach from position i on.
RECURSIVE Credit(_, _, _, _)
Credit(st, delta, w, i) ==
  IF i > Len(st.P[w]) THEN delta
  ELSE After(delta, Credit(st, Credited(st, delta, w, st.P[w][i]), w, i + 1))

\* Lines 114-116: cb of the popped w, once delta has its credits.
Popped(delta, cb, s, w) ==
  [delta |-> delta,
   cb |-> IF w # s THEN [cb EXCEPT ![w] = DAdd(@, delta[w])] ELSE cb]

\* Lines 109-117: the while loop that pops stack[top], ..., stack[1]; acc
\* holds delta and cb.
RECURSIVE Unwind(_, _, _, _)
Unwind(st, acc, s, top) ==
  IF top = 0 THEN acc
  ELSE After(acc, Unwind(st, Popped(Credit(st, acc.delta, st.queue[top], 1), acc.cb,
                                    s, st.queue[top]),
                         s, top - 1))

\* The map with 0 for every node.
Zeros(ns) == Eager([v \in NodeIds(ns) |-> DZero])

\* Lines 76-117: cb after the search from s, st its maps after line 104.
Unwound(ns, st, cb, s) ==
  Unwind(st, [delta |-> Zeros(ns), cb |-> cb], s, Len(st.queue)).cb

\* Lines 75-118: the forEach over the sources from position i of ns on.
RECURSIVE Sources(_, _, _, _)
Sources(ns, a, cb, i) ==
  IF i > Len(ns) THEN cb
  ELSE After(cb, Sources(ns, a,
                         Unwound(ns, Search(a, SearchStart(ns, ns[i]), 1), cb, ns[i]),
                         i + 1))

\* Lines 120-125: the division by (n - 1) * (n - 2) when that is above 0.
Normalised(ns, cb, norm) ==
  [w \in NodeIds(ns) |-> IF norm > 0 THEN DDivInt(cb[w], norm) ELSE cb[w]]

calculateBetweenness(ns, a) ==
  Normalised(ns, Sources(ns, a, Zeros(ns), 1), (Len(ns) - 1) * (Len(ns) - 2))

(***************************************************************************)
(* Closeness, lines 130-162.                                               *)
(***************************************************************************)
calculateCloseness(ns, a) ==
  [s \in NodeIds(ns) |->
     LET L == BFSLevels(a, s)
     IN  IF ReachableCount(L) > 0
           THEN JsDivide(ReachableCount(L), TotalDist(L), FALSE)
           ELSE Zero]

(***************************************************************************)
(* calculateAllMetrics, lines 34-57.                                       *)
(***************************************************************************)
\* The call throws exactly when calculatePageRank does: the calls before it
\* (degrees, betweenness, closeness) never throw.
AllMetricsThrows(ns, a, r) == PageRankThrows(ns, a, r)

\* x || 0 for a double x: 0 for NaN (and for 0).
OrZero(x) == IF IsNaN(x) THEN DZero ELSE x

\* The returned map.  "x || 0" turns a NaN entry of DomiRank into 0.
calculateAllMetrics(ns, a, r) ==
  LET inDegrees == calculateInDegrees(ns, r)
      outDegrees == calculateOutDegrees(ns, a)
      betweenness == calculateBetweenness(ns, a)
      closeness == calculateCloseness(ns, a)
      pageRank == calculatePageRank(ns, a, r)
      domiRank == calculateDomiRank(ns, a, r)
  IN  Eager([v \in NodeIds(ns) |->
        [inDegree |-> inDegrees[v],
         outDegree |-> outDegrees[v],
         degree |-> inDegrees[v] + outDegrees[v],
         betweenness |-> OrZero(betweenness[v]),
         closeness |-> closeness[v],
         pageRank |-> OrZero(pageRank[v]),
         domiRank |-> OrZero(domiRank[v])]])
(***************************************************************************)
(* calculateNGC, lines 290-324.                                            *)
(***************************************************************************)
\* The local undirected adjacency of lines 293-299: a set for every node of
\* ns; an edge adds each endpoint to the set of the other one when that
\* other one is a node of ns.
UndirectedAdj(ns, es) ==
  Eager([v \in NodeIds(ns) |->
     {es[i].target : i \in {j \in 1..Len(es) : es[j].source = v}}
       \cup {es[i].source : i \in {j \in 1..Len(es) : es[j].target = v}}])

\* The search of lines 307-318 from the ids in frontier: the ids it adds to
\* visited.  An id that is no node is visited and counted, and has no
\* neighbours (adj.get(v) is undefined).
RECURSIVE Component(_, _, _, _)
Component(und, frontier, found, seen) ==
  LET nxt == {w \in UNION {IF v \in DOMAIN und THEN und[v] ELSE {} : v \in frontier} :
                w \notin seen /\ w \notin found}
  IN  IF nxt = {} THEN found
      ELSE Component(und, nxt, found \cup nxt, seen)

\* The loop of lines 304-321 from node i on: maxComponentSize.
RECURSIVE ScanComponents(_, _, _, _, _)
ScanComponents(ns, und, i, seen, maxComponentSize) ==
  IF i > Len(ns) THEN maxComponentSize
  ELSE IF ns[i] \in seen
    THEN ScanComponents(ns, und, i + 1, seen, maxComponentSize)
    ELSE LET comp == Component(und, {ns[i]}, {ns[i]}, seen)
             currentSize == Cardinality(comp)
             newSeen == seen \cup comp
             newMax == Max(maxComponentSize, currentSize)
         IN  IF newMax >= currentSize /\ Cardinality(newSeen) >= currentSize
               THEN ScanComponents(ns, und, i + 1, newSeen, newMax)
               ELSE newMax

\* Line 293 declares a local Map named adj and lines 294-299 fill that one:
\* this.adj after calculateNGC(ns, es) is the index a it was before.
AdjOverwrittenByNGC(a, ns, es) ==
  BuildAdj(ns, es \o [i \in 1..Len(es) |->
                       [source |-> es[i].target, target |-> es[i].source,
                        weight |-> es[i].weight]])
AdjAfterNGC(a, ns, es) == a

\* The loop of lines 304-321 from node i on: the currentSize of every search
\* it starts, in the order of the node list.
RECURSIVE ComponentSizes(_, _, _, _)
ComponentSizes(ns, und, i, seen) ==
  IF i > Len(ns) THEN << >>
  ELSE IF ns[i] \in seen THEN ComponentSizes(ns, und, i + 1, seen)
  ELSE LET comp == Component(und, {ns[i]}, {ns[i]}, seen)
           newSeen == seen \cup comp
       IN  IF Cardinality(newSeen) >= Cardinality(comp)
             THEN <<Cardinality(comp)>> \o ComponentSizes(ns, und, i + 1, newSeen)
             ELSE << >>

MaxComponentSize(ns, es) == ScanComponents(ns, UndirectedAdj(ns, es), 1, {}, 0)

calculateNGC(ns, es) ==
  IF Len(ns) = 0 THEN Zero
  ELSE JsDivide(MaxComponentSize(ns, es), Len(ns), FALSE)

(***************************************************************************)
(* getStats, lines 234-288.                                                *)
(***************************************************************************)
\* Lines 242-256: the clustering term of node v, 0 when k < 2.  The
\* neighbour set is the union of adj[v] and revAdj[v] as they are.
ClusteringOf(a, r, v) ==
  LET neighbors == Members(a[v]) \cup Members(r[v])
      k == Cardinality(neighbors)
      actualEdges == Cardinality({pq \in neighbors \X neighbors :
                                    pq[1] # pq[2] /\ pq[2] \in Succ(a, pq[1])})
  IN  IF k < 2 THEN DZero ELSE DQuotient(actualEdges, k * (k - 1))

\* totalClustering: the terms added in the order of the node list.
TotalClustering(ns, a, r) ==
  DSumFrom(ns, Eager([v \in NodeIds(ns) |-> ClusteringOf(a, r, v)]), 1, DZero)

\* Lines 260-278.
TotalPath(ns, a) ==
  SumOver(NodeIds(ns), [s \in NodeIds(ns) |-> TotalDist(BFSLevels(a, s))])
\* A slip in the count: every ordered pair of nodes, reachable or not.
PathCountAllPairs(ns, a) == Len(ns) * (Len(ns) - 1)
PathCount(ns, a) ==
  SumOver(NodeIds(ns), [s \in NodeIds(ns) |-> ReachableCount(BFSLevels(a, s))])

getStats(ns, es, a, r) ==
  LET nodeCount == Len(ns)
      edgeCount == Len(es)
      \* nodeCount * (nodeCount - 1) is the double -0 for nodeCount = 0
      density == JsDivide(edgeCount, nodeCount * (nodeCount - 1), nodeCount = 0)
      pathCount == PathCount(ns, a)
  IN  [nodeCount |-> nodeCount,
       edgeCount |-> edgeCount,
       density |-> density,
       \* totalClustering / nodeCount is 0 / 0, that is NaN, for nodeCount = 0
       avgClustering |-> IF nodeCount = 0 THEN DNaN
                         ELSE DDivInt(TotalClustering(ns, a, r), nodeCount),
       avgShortestPath |-> IF pathCount > 0
                             THEN JsDivide(TotalPath(ns, a), pathCount, FALSE)
                             ELSE Zero,
       ngc |-> calculateNGC(ns, es)]

(***************************************************************************)
(* simulateRobustness, lines 326-363.                                      *)
(***************************************************************************)
Strategies == {"random", "degree", "betweenness", "pageRank", "domiRank"}
Targeted == Strategies \ {"random"}

\* The number the comparator of lines 336-344 orders by.
MetricOf(m, strategy) ==
  IF strategy = "degree" THEN DFromInt(m.degree)
  ELSE IF strategy = "betweenness" THEN m.betweenness
  ELSE IF strategy = "pageRank" THEN m.pageRank
  ELSE m.domiRank

\* A slip in the comparator (ma - mb): ascending order.
SortAscending(ns, key) ==
  LET n == Len(ns)
      before(j, i) == \/ DLess(key[ns[j]], key[ns[i]])
                      \/ (key[ns[j]] = key[ns[i]] /\ j < i)
      rank == Eager([i \in 1..n |-> 1 + Cardinality({j \in 1..n : before(j, i)})])
  IN  [p \in 1..n |-> ns[CHOOSE i \in 1..n : rank[i] = p]]

\* Array.prototype.sort with the comparator mb - ma: descending, and stable
\* (elements whose difference is 0 keep the order of the node list).
SortDescending(ns, key) ==
  LET n == Len(ns)
      before(j, i) == \/ DLess(key[ns[i]], key[ns[j]])
                      \/ (key[ns[j]] = key[ns[i]] /\ j < i)
      rank == Eager([i \in 1..n |-> 1 + Cardinality({j \in 1..n : before(j, i)})])
  IN  [p \in 1..n |-> ns[CHOOSE i \in 1..n : rank[i] = p]]

\* A slip in the comparator: every strategy orders by degree.
TargetedOrderByDegree(ns, m, strategy) ==
  SortDescending(ns, Eager([v \in NodeIds(ns) |-> MetricOf(m[v], "degree")]))

\* sortedNodeIds of a targeted strategy, from the metrics map m.
TargetedOrder(ns, m, strategy) ==
  SortDescending(ns, Eager([v \in NodeIds(ns) |-> MetricOf(m[v], strategy)]))

\* The orders sort(() => Math.random() - 0.5) can give: any permutation.
RandomOrders(ns) ==
  {o \in [1..Len(ns) -> NodeIds(ns)] : \A v \in NodeIds(ns) : \E p \in 1..Len(ns) : o[p] = v}

\* Lines 348-349.  floor((i / steps) * n) as doubles equals the integer
\* quotient for every node count below 90.
NodesToRemove(i, n) == (i * n) \div steps

\* A slip in the slice: the removed ids are kept instead of the others.
RemainingNodeIdsKeepsRemoved(order, i) ==
  {order[p] : p \in 1..NodesToRemove(i, Len(order))}

\* Lines 350-353: the ids left at step i, and the nodes and the edges kept.
RemainingNodeIds(order, i) ==
  {order[p] : p \in (NodesToRemove(i, Len(order)) + 1)..Len(order)}
RemainingNodes(ns, remaining) == SelectSeq(ns, LAMBDA v : v \in remaining)
\* A slip in the filter of line 353: every edge is kept.
RemainingEdgesUnfiltered(es, remaining) == es
RemainingEdges(es, remaining) ==
  SelectSeq(es, LAMBDA e : e.source \in remaining /\ e.target \in remaining)

\* Line 333 and line 335 sort [...this.nodes.map(n => n.id)], a fresh array
\* of ids: this.nodes after the call is the list it was before.
NodesSortedInPlace(ns, order) == order
NodesAfterSort(ns, order) == ns

\* The ngc of step i.
StepNGC(ns, es, order, i) ==
  LET remainingNodeIds == RemainingNodeIds(order, i)
  IN  calculateNGC(RemainingNodes(ns, remainingNodeIds),
                   RemainingEdges(es, remainingNodeIds))

\* The returned points, for the order sortedNodeIds.
simulateRobustness(ns, es, order, strategy) ==
  [p \in 1..(steps + 1) |->
     [removalRatio |-> Rat(p - 1, steps),
      ngc |-> StepNGC(ns, es, order, p - 1),
      strategy |-> strategy]]
(***************************************************************************)
(* The explored inputs of the constructor.  Node ids are 1..k in list      *)
(* order; k + 1 is an id that is no node.                                  *)
(***************************************************************************)
Edge(s, t) == [source |-> s, target |-> t, weight |-> 1]

EdgesOver(k) == [source : 1..(k + 1), target : 1..(k + 1), weight : 1..MaxWeight]

SmallGraphs ==
  UNION {{[ns |-> [i \in 1..k |-> i], es |-> e] :
            e \in UNION {[1..m -> EdgesOver(k)] : m \in 0..MaxEdges}} :
         k \in 0..MaxNodes}

\* The directed 4-cycle A->B->C->D->A and the two mutual pairs A<->B, C<->D.
Cycle4 == [ns |-> <<1, 2, 3, 4>>,
           es |-> <<Edge(1, 2), Edge(2, 3), Edge(3, 4), Edge(4, 1)>>]
TwoPairs == [ns |-> <<1, 2, 3, 4>>,
             es |-> <<Edge(1, 2), Edge(2, 1), Edge(3, 4), Edge(4, 3)>>]

\* A star: one hub and n leaves, one edge between the hub and each leaf,
\* the hub first or last in the node list.
StarHub(n, hubFirst) == IF hubFirst THEN 1 ELSE n + 1
StarLeaf(n, hubFirst, i) == IF hubFirst THEN i + 1 ELSE i
Star(n, hubFirst, outward) ==
  [ns |-> [i \in 1..(n + 1) |-> i],
   es |-> [i \in 1..n |->
             IF outward
               THEN Edge(StarHub(n, hubFirst), StarLeaf(n, hubFirst, i))
               ELSE Edge(StarLeaf(n, hubFirst, i), StarHub(n, hubFirst))]]

\* The smallest star whose first removal step takes two nodes at once:
\* floor((1 / steps) * (n + 1)) = 2.
BigStarLeaves == 2 * steps - 1
StarSizes == 1..MaxStarLeaves \cup {BigStarLeaves}
Stars == {Star(n, hf, ow) : n \in StarSizes, hf \in BOOLEAN, ow \in BOOLEAN}

\* The path A->B->C beside an isolated node D.
PathAndIsolated == [ns |-> <<1, 2, 3, 4>>, es |-> <<Edge(1, 2), Edge(2, 3)>>]

\* Two shortest paths from A to D: A->B->D and A->C->D.
Diamond == [ns |-> <<1, 2, 3, 4>>,
            es |-> <<Edge(1, 2), Edge(1, 3), Edge(2, 4), Edge(3, 4)>>]

Graphs == SmallGraphs \cup {Cycle4, TwoPairs, PathAndIsolated, Diamond} \cup Stars

(***************************************************************************)
(* The analyzer object and the values its public methods returned last.    *)
(***************************************************************************)
VARIABLES
  nodes,          \* this.nodes
  edges,          \* this.edges
  adj,            \* this.adj
  revAdj,         \* this.revAdj
  weights,        \* this.weights
  metrics,        \* outcome of the last calculateAllMetrics()
  stats,          \* outcome of the last getStats()
  points,         \* outcome of the last simulateRobustness(strategy)
  sortedNodeIds,  \* the local sortedNodeIds of that call
  firstPoints     \* observer: outcome of the first targeted simulateRobustness

vars == <<nodes, edges, adj, revAdj, weights, metrics, stats, points,
          sortedNodeIds, firstPoints>>

NotCalled == [status |-> "none", value |-> << >>]
Threw == [status |-> "threw", value |-> << >>]
Returned(v) == [status |-> "returned", value |-> v]

\* calculateAllMetrics tabulated over the graph indexes of the explored
\* inputs: AllMetricsOf(ns, a, r) is calculateAllMetrics(ns, a, r).
AllMetricsTable ==
  [g \in {[ns |-> h.ns, a |-> BuildAdj(h.ns, h.es), r |-> BuildRevAdj(h.ns, h.es)] :
            h \in Graphs} |->
     IF AllMetricsThrows(g.ns, g.a, g.r) THEN << >>
     ELSE calculateAllMetrics(g.ns, g.a, g.r)] @@ << >>

\* table[g], or the metrics computed when the table has no entry for g.
Tabulated(table, g) ==
  IF g \in DOMAIN table THEN table[g] ELSE calculateAllMetrics(g.ns, g.a, g.r)
AllMetricsOf(ns, a, r) == Tabulated(AllMetricsTable, [ns |-> ns, a |-> a, r |-> r])

\* The observer of repeated calls.  It keeps the outcome of the first
\* targeted simulateRobustness, whether another public call came after it
\* (between), and whether the same strategy was then called again (again).
\* With status "unobserved" nothing is recorded.
Unobserved == [status |-> "unobserved", strategy |-> "none", value |-> << >>,
               between |-> FALSE, again |-> FALSE]
Observing == [Unobserved EXCEPT !.status = "none"]
\* after a call of simulateRobustness with outcome p
ObserveSimulate(first, p) ==
  IF first.status = "unobserved" THEN first
  ELSE IF first.status = "none"
    THEN IF p.strategy \in Targeted
           THEN [status |-> p.status, strategy |-> p.strategy, value |-> p.value,
                 between |-> FALSE, again |-> FALSE]
           ELSE first
  ELSE IF p.strategy = first.strategy
    THEN [first EXCEPT !.again = first.between]
  ELSE [first EXCEPT !.between = TRUE]
\* after a call of calculateAllMetrics or getStats
ObserveOther(first) ==
  IF first.status \in {"unobserved", "none"} THEN first
  ELSE [first EXCEPT !.between = TRUE]

\* new NetworkAnalyzer(g.ns, g.es)
Constructed(g) ==
  /\ nodes = g.ns
  /\ edges = g.es
  /\ adj = BuildAdj(g.ns, g.es)
  /\ revAdj = BuildRevAdj(g.ns, g.es)
  /\ weights = BuildWeights(g.es)
  /\ metrics = NotCalled
  /\ stats = NotCalled
  /\ points = [status |-> "none", strategy |-> "none", value |-> << >>]
  /\ sortedNodeIds = << >>

Init == \E g \in Graphs : Constructed(g) /\ firstPoints = Unobserved

\* analyzer.calculateAllMetrics()
CalculateAllMetrics ==
  /\ metrics' = IF AllMetricsThrows(nodes, adj, revAdj) THEN Threw
                ELSE Returned(AllMetricsOf(nodes, adj, revAdj))
  /\ firstPoints' = ObserveOther(firstPoints)
  /\ UNCHANGED <<nodes, edges, adj, revAdj, weights, stats, points, sortedNodeIds>>

\* analyzer.getStats()
GetStats ==
  /\ stats' = Returned(getStats(nodes, edges, adj, revAdj))
  /\ adj' = AdjAfterNGC(adj, nodes, edges)
  /\ firstPoints' = ObserveOther(firstPoints)
  /\ UNCHANGED <<nodes, edges, revAdj, weights, metrics, points, sortedNodeIds>>

\* analyzer.simulateRobustness(strategy) for a targeted strategy: the
\* exception of calculateAllMetrics, if any, leaves the call.
SimulateTargeted(strategy) ==
  /\ IF AllMetricsThrows(nodes, adj, revAdj)
       THEN /\ points' = [status |-> "threw", strategy |-> strategy, value |-> << >>]
            /\ sortedNodeIds' = << >>
            /\ nodes' = nodes
       ELSE \E order \in {TargetedOrder(nodes, AllMetricsOf(nodes, adj, revAdj), strategy)} :
                /\ sortedNodeIds' = order
                /\ nodes' = NodesAfterSort(nodes, order)
                /\ points' = [status |-> "returned", strategy |-> strategy,
                              value |-> simulateRobustness(nodes, edges, order, strategy)]
  /\ firstPoints' = ObserveSimulate(firstPoints, points')
  /\ UNCHANGED <<edges, adj, revAdj, weights, metrics, stats>>

\* analyzer.simulateRobustness('random'): explored for node lists of at most
\* MaxShuffle ids.
SimulateRandom ==
  /\ Len(nodes) <= MaxShuffle
  /\ \E order \in RandomOrders(nodes) :
       /\ sortedNodeIds' = order
       /\ nodes' = NodesAfterSort(nodes, order)
       /\ points' = [status |-> "returned", strategy |-> "random",
                     value |-> simulateRobustness(nodes, edges, order, "random")]
  /\ firstPoints' = ObserveSimulate(firstPoints, points')
  /\ UNCHANGED <<edges, adj, revAdj, weights, metrics, stats>>

Next ==
  \/ CalculateAllMetrics
  \/ GetStats
  \/ \E strategy \in Targeted : SimulateTargeted(strategy)
  \/ SimulateRandom

Spec == Init /\ [][Next]_vars

\* The same analyzer with the observer of repeated calls switched on, over
\* the graphs of at most MaxRepeatEdges edges.
RepeatGraphs == {g \in SmallGraphs : Len(g.es) <= MaxRepeatEdges}
InitRepeat == \E g \in RepeatGraphs : Constructed(g) /\ firstPoints = Observing
SpecRepeat == InitRepeat /\ [][Next]_vars
(***************************************************************************)
(* Properties.                                                             *)
(***************************************************************************)
Ids == NodeIds(nodes)
StepIndexes == 1..(steps + 1)
PointNGC(p) == points.value[p].ngc
\* the number of nodes left at point p of the last simulation
RemainingCount(p) == Cardinality(RemainingNodeIds(sortedNodeIds, p - 1))
\* x * k for a finite rational x
RatTimes(x, k) == Rat(x.n * k, x.d)
TargetedReturned == points.status = "returned" /\ points.strategy \in Targeted

\* C1 (as stated): under a targeted strategy the NGC of the 21 points never
\* increases: points[j].ngc <= points[i].ngc for all steps i < j.
C1_NGCNonIncreasing ==
  TargetedReturned =>
    \A i \in StepIndexes : \A j \in StepIndexes :
      i < j => RatLeq(PointNGC(j), PointNGC(i))

\* C1 (amended): under a targeted strategy the size of the largest
\* component, that is ngc times the number of nodes left, never increases
\* from one step to a later one.
C1_LargestComponentNonIncreasing ==
  TargetedReturned =>
    \A i \in StepIndexes : \A j \in StepIndexes :
      i < j => RatLeq(RatTimes(PointNGC(j), RemainingCount(j)),
                      RatTimes(PointNGC(i), RemainingCount(i)))

\* A targeted simulation returned a sequence whose NGC rises at some step
\* while nodes are being removed.
C1_Witness ==
  /\ TargetedReturned
  /\ \E i \in StepIndexes : \E j \in StepIndexes :
       /\ i < j
       /\ RemainingCount(j) < RemainingCount(i)
       /\ RatLess(PointNGC(i), PointNGC(j))

\* C2: the in-degrees of calculateAllMetrics sum to the same number as the
\* out-degrees, and both sums equal the edgeCount of getStats.
C2_DegreeSumsEqualEdgeCount ==
  (metrics.status = "returned" /\ stats.status = "returned") =>
    LET sumIn == SumOver(Ids, [v \in Ids |-> metrics.value[v].inDegree])
        sumOut == SumOver(Ids, [v \in Ids |-> metrics.value[v].outDegree])
    IN  sumIn = sumOut /\ sumOut = stats.value.edgeCount

\* The edges whose two endpoints are nodes.
KnownEdges == SelectSeq(edges, LAMBDA e : e.source \in Ids /\ e.target \in Ids)
HasUnknownEdge == KnownEdges # edges

\* C3: with an edge whose source or target is no node, no call throws and
\* the per-node metrics are those of the graph without such edges.
C3_UnknownEdgeIgnored ==
  HasUnknownEdge =>
    /\ metrics.status # "threw"
    /\ points.status # "threw"
    /\ metrics.status = "returned" =>
         metrics.value = AllMetricsOf(nodes, BuildAdj(nodes, KnownEdges),
                                      BuildRevAdj(nodes, KnownEdges))

\* C4: every id in a successor or predecessor set is a node, and w is in
\* adj[v] if and only if v is in revAdj[w].
C4_AdjacencyWellFormed ==
  /\ \A v \in DOMAIN adj : \A w \in Succ(adj, v) :
       w \in DOMAIN revAdj /\ v \in Succ(revAdj, w)
  /\ \A w \in DOMAIN revAdj : \A v \in Succ(revAdj, w) :
       v \in DOMAIN adj /\ w \in Succ(adj, v)

\* C5: for the empty node list and the empty edge list getStats returns 0
\* for density, avgClustering, avgShortestPath and ngc.
C5_EmptyGraphZeroStats ==
  (nodes = << >> /\ edges = << >> /\ stats.status = "returned") =>
    /\ stats.value.density = Zero
    /\ stats.value.avgClustering = DZero
    /\ stats.value.avgShortestPath = Zero
    /\ stats.value.ngc = Zero

\* C6: getStats returns density 0 for fewer than 2 nodes and
\* edgeCount / (V * (V - 1)) for V >= 2.
C6_DensityDefined ==
  stats.status = "returned" =>
    LET V == Len(nodes)
    IN  IF V < 2 THEN stats.value.density = Zero
        ELSE stats.value.density = Rat(Len(edges), V * (V - 1))

\* The analyzer holds the star of n leaves.
IsStar(n, hubFirst, outward) ==
  /\ nodes = Star(n, hubFirst, outward).ns
  /\ edges = Star(n, hubFirst, outward).es
DegreeReturned == points.status = "returned" /\ points.strategy = "degree"
\* the first point whose removal count is not 0
FirstRemoval(n) ==
  CHOOSE p \in StepIndexes :
    /\ NodesToRemove(p - 1, n + 1) > 0
    /\ \A q \in 1..(p - 1) : NodesToRemove(q - 1, n + 1) = 0
RemovedAt(p) == Ids \ RemainingNodeIds(sortedNodeIds, p - 1)

\* C7 (as stated): on a star of n leaves, under "degree", the NGC is 1 while
\* nothing is removed, and at the first step that removes something the
\* hub is removed and the NGC is exactly 1/n.
C7_StarCollapse ==
  \A n \in StarSizes : \A hubFirst \in BOOLEAN : \A outward \in BOOLEAN :
    (IsStar(n, hubFirst, outward) /\ DegreeReturned) =>
      LET first == FirstRemoval(n)
      IN  /\ \A q \in 1..(first - 1) : PointNGC(q) = Rat(1, 1)
          /\ StarHub(n, hubFirst) \in RemovedAt(first)
          /\ PointNGC(first) = Rat(1, n)

\* C7 (amended): the NGC is 1 while nothing is removed; the first step that
\* removes something removes c nodes and has NGC 1/(n + 1 - c); c is 1, so
\* the NGC is 1/n, for every star of fewer than 2 * steps nodes; the hub is
\* among the removed nodes when n >= 2, and for n = 1, where hub and leaf
\* tie, the first node of the list is the one removed.
C7_StarCollapseAmended ==
  \A n \in StarSizes : \A hubFirst \in BOOLEAN : \A outward \in BOOLEAN :
    (IsStar(n, hubFirst, outward) /\ DegreeReturned) =>
      LET first == FirstRemoval(n)
          c == NodesToRemove(first - 1, n + 1)
      IN  /\ \A q \in 1..(first - 1) : PointNGC(q) = Rat(1, 1)
          /\ PointNGC(first) = Rat(1, n + 1 - c)
          /\ n + 1 < 2 * steps => c = 1 /\ PointNGC(first) = Rat(1, n)
          /\ n >= 2 => StarHub(n, hubFirst) \in RemovedAt(first)
          /\ n = 1 => RemovedAt(first) = {nodes[1]}

\* The degree simulation returned on a star of at least two leaves whose
\* hub is the last node of the list.
C7_Witness ==
  /\ DegreeReturned
  /\ \E n \in StarSizes : \E outward \in BOOLEAN :
       n >= 2 /\ IsStar(n, FALSE, outward)

IsCycle4 == nodes = Cycle4.ns /\ edges = Cycle4.es
Cycle4Degrees ==
  \A v \in Ids : metrics.value[v].inDegree = 1 /\ metrics.value[v].outDegree = 1

\* C8 (as stated): on the directed 4-cycle every in- and out-degree is 1,
\* ngc is 1.0 and avgShortestPath is 1.5.
C8_Cycle4 ==
  (IsCycle4 /\ metrics.status = "returned" /\ stats.status = "returned") =>
    /\ Cycle4Degrees
    /\ stats.value.ngc = Rat(1, 1)
    /\ stats.value.avgShortestPath = Rat(3, 2)

\* C8 (amended): on the directed 4-cycle every in- and out-degree is 1,
\* ngc is 1.0 and avgShortestPath is 2.0 (distances 1, 2, 3 from each node).
C8_Cycle4Amended ==
  (IsCycle4 /\ metrics.status = "returned" /\ stats.status = "returned") =>
    /\ Cycle4Degrees
    /\ stats.value.ngc = Rat(1, 1)
    /\ stats.value.avgShortestPath = Rat(2, 1)

\* Both calls returned on the 4-cycle.
C8_Witness ==
  IsCycle4 /\ metrics.status = "returned" /\ stats.status = "returned"

\* What a sum of doubles may differ from its exact value by: 10^-9.
Tolerance == DQuotient(1, 1000000000)
Near(a, b) == ~IsNaN(a) /\ ~IsNaN(b) /\ ~DLess(Tolerance, DAbs(DSub(a, b)))
\* The entries of the map m added in the order of the node list.
Total(m) == DSumFrom(nodes, m, 1, DZero)

\* C9: for a non-empty graph the PageRank values of calculateAllMetrics sum
\* to 1, and an iteration from the uniform vector keeps the total at 1.
C9_PageRankSumsToOne ==
  (metrics.status = "returned" /\ nodes # << >>) =>
    /\ Near(Total([v \in Ids |-> metrics.value[v].pageRank]), DOne)
    /\ Near(Total(PageRankStep(nodes, adj, revAdj, Uniform(nodes))), DOne)

\* C10: every DomiRank entry is a number >= 0 after the iterations and in
\* the returned vector, and the returned vector sums to 1, or is all zero
\* exactly when the total after the last iteration is 0.
C10_DomiRankNormalised ==
  metrics.status = "returned" =>
    LET raw == DomiRankRaw(nodes, adj, revAdj)
        ret == calculateDomiRank(nodes, adj, revAdj)
        total == DomiRankTotal(nodes, raw)
    IN  /\ \A v \in Ids : ~IsNaN(raw[v]) /\ ~IsNaN(ret[v])
        /\ \A v \in Ids : ~DLess(raw[v], DZero) /\ ~DLess(ret[v], DZero)
        /\ \A v \in Ids : metrics.value[v].domiRank = ret[v]
        /\ IF total = DZero THEN \A v \in Ids : ret[v] = DZero
           ELSE Near(Total(ret), DOne)

\* C11: a repeated call returns what the same call returned before, with
\* any other public calls in between: calculateAllMetrics and getStats
\* give their earlier outcome again, and a targeted simulateRobustness gives
\* the outcome of the first call of that strategy.
C11_RepeatedCallsIdentical ==
  [][/\ metrics.status # "none" => metrics' = metrics
     /\ stats.status # "none" => stats' = stats
     /\ (firstPoints'.status \in {"returned", "threw"}
           /\ points'.strategy = firstPoints'.strategy) =>
          /\ points'.status = firstPoints'.status
          /\ points'.value = firstPoints'.value]_vars

\* A targeted strategy was called, other public calls followed, among them
\* calculateAllMetrics and getStats, and the strategy was called again and
\* returned.
C11_Witness ==
  /\ firstPoints.status = "returned" /\ firstPoints.between /\ firstPoints.again
  /\ points.status = "returned" /\ points.strategy = firstPoints.strategy
  /\ Len(nodes) = MaxNodes /\ edges # << >>
  /\ metrics.status = "returned" /\ stats.status = "returned"

\* C12: no public call changes the node list, the edge list, the successor
\* sets, the predecessor sets or the weight map.
C12_SnapshotNotMutated ==
  [][UNCHANGED <<nodes, edges, adj, revAdj, weights>>]_vars

\* calculateAllMetrics, getStats and a random simulateRobustness that drew
\* an order other than the node list's have all been called on a graph with
\* edges.
C12_Witness ==
  /\ metrics.status = "returned" /\ stats.status = "returned"
  /\ points.status = "returned" /\ points.strategy = "random"
  /\ sortedNodeIds # nodes /\ edges # << >>

\* C13: every call of simulateRobustness returns 21 points in step order,
\* point i with removalRatio i/20 and the strategy of the call; step i
\* removes floor((i/20) * V) nodes, the first ones of sortedNodeIds, and
\* what a step removes the next step removes too.
C13_SweepShape ==
  points.status # "none" =>
    /\ points.status = "returned"
    /\ DOMAIN points.value = StepIndexes
    /\ \A p \in StepIndexes :
         /\ points.value[p].removalRatio = Rat(p - 1, steps)
         /\ points.value[p].strategy = points.strategy
         /\ Cardinality(RemovedAt(p)) = ((p - 1) * Len(nodes)) \div steps
         /\ RemovedAt(p) = {sortedNodeIds[q] : q \in 1..Cardinality(RemovedAt(p))}
         /\ p > 1 => RemovedAt(p - 1) \subseteq RemovedAt(p)

\* The position of id v in the node list.
NodeIndex(v) == CHOOSE i \in 1..Len(nodes) : nodes[i] = v
\* The value the strategy of the last simulation ranks id v by, taken from
\* one calculateAllMetrics call.
RankedBy(v) == MetricOf(AllMetricsOf(nodes, adj, revAdj)[v], points.strategy)

\* C14: the order a targeted strategy removes in is a permutation of the
\* node ids, non-increasing in the metric of the strategy, and ids of equal
\* metric keep the order they have in the node list.
C14_TargetedOrderSorted ==
  TargetedReturned =>
    /\ Len(sortedNodeIds) = Len(nodes)
    /\ {sortedNodeIds[p] : p \in 1..Len(sortedNodeIds)} = Ids
    /\ \A p \in 1..Len(sortedNodeIds) : \A q \in 1..Len(sortedNodeIds) :
         p < q =>
           /\ ~DLess(RankedBy(sortedNodeIds[p]), RankedBy(sortedNodeIds[q]))
           /\ RankedBy(sortedNodeIds[p]) = RankedBy(sortedNodeIds[q]) =>
                NodeIndex(sortedNodeIds[p]) < NodeIndex(sortedNodeIds[q])

\* A targeted simulation on a graph where the sort had to move an id in
\* front of an earlier one and two other ids tie.
C14_Witness ==
  /\ TargetedReturned
  /\ sortedNodeIds # nodes
  /\ \E v \in Ids : \E w \in Ids : v # w /\ RankedBy(v) = RankedBy(w)

\* The pairs of nodes joined by an edge, in either direction.
Linked ==
  {<<e.source, e.target>> : e \in {KnownEdges[i] : i \in 1..Len(KnownEdges)}}
    \cup {<<e.target, e.source>> : e \in {KnownEdges[i] : i \in 1..Len(KnownEdges)}}
\* The nodes connected to a node of S by the pairs of linked.
RECURSIVE ConnectedTo(_, _)
ConnectedTo(S, linked) ==
  LET T == S \cup {p[2] : p \in {q \in linked : q[1] \in S}}
  IN  IF T = S THEN S ELSE ConnectedTo(T, linked)
LargestComponentSize ==
  LET linked == Linked
  IN  MaxOf({Cardinality(ConnectedTo({v}, linked)) : v \in Ids})
\* The edge list with edge i reversed.
ReverseEdge(es, i) ==
  [es EXCEPT ![i] = [source |-> es[i].target, target |-> es[i].source,
                     weight |-> es[i].weight]]
IsTwoPairs == nodes = TwoPairs.ns /\ edges = TwoPairs.es

\* C15: the ngc of getStats is the size of the largest connected component
\* of the undirected view over the node count, 0 without nodes; reversing an
\* edge does not change it; it is 1 for one isolated node and 1/2 for the two
\* mutual pairs, whose density is 1/3.
C15_NGCIsLargestComponentShare ==
  stats.status = "returned" =>
    /\ stats.value.ngc = IF nodes = << >> THEN Zero
                         ELSE Rat(LargestComponentSize, Len(nodes))
    /\ \A i \in 1..Len(edges) :
         calculateNGC(nodes, ReverseEdge(edges, i)) = stats.value.ngc
    /\ (Len(nodes) = 1 /\ edges = << >>) => stats.value.ngc = Rat(1, 1)
    /\ IsTwoPairs => stats.value.ngc = Rat(1, 2) /\ stats.value.density = Rat(1, 3)

\* Node v is the source or the target of no edge.
Isolated(v) == \A i \in 1..Len(edges) : edges[i].source # v /\ edges[i].target # v

\* C16: in the result of calculateAllMetrics a node without incoming and
\* without outgoing edges has closeness 0 and betweenness 0.
C16_IsolatedNodeZero ==
  metrics.status = "returned" =>
    \A v \in Ids :
      Isolated(v) => /\ metrics.value[v].closeness = Zero
                     /\ metrics.value[v].betweenness = DZero

\* calculateAllMetrics returned on a graph with an isolated node beside a
\* node of closeness above 0 and a node of betweenness above 0.
C16_Witness ==
  /\ metrics.status = "returned"
  /\ \E v \in Ids : Isolated(v)
  /\ \E w \in Ids : RatLess(Zero, metrics.value[w].closeness)
  /\ \E w \in Ids : DLess(DZero, metrics.value[w].betweenness)

\* There is an edge from a to b in the edge list.
HasEdge(a, b) == \E i \in 1..Len(edges) : edges[i].source = a /\ edges[i].target = b

\* C17: on a graph with nodes whose edges all join nodes, the avgClustering
\* of getStats is, up to the rounding of the sum, the sum of c(v) over all
\* nodes divided by V.  N(v) holds
\* the successors and the predecessors of v and leaves out v itself also
\* when v has a self-loop; c(v) is 0 for fewer than two neighbours, else
\* the share of the ordered pairs of distinct neighbours that are joined by
\* an edge.
C17_AvgClustering ==
  (stats.status = "returned" /\ nodes # << >> /\ ~HasUnknownEdge) =>
    LET N(v) == {w \in Ids : HasEdge(v, w) \/ HasEdge(w, v)} \ {v}
        k(v) == Cardinality(N(v))
        joined(v) == {ab \in N(v) \X N(v) : ab[1] # ab[2] /\ HasEdge(ab[1], ab[2])}
        c == [v \in Ids |-> IF k(v) < 2 THEN Zero
                            ELSE Rat(Cardinality(joined(v)), k(v) * (k(v) - 1))]
    IN  Near(stats.value.avgClustering,
             DFromRat(RatDivInt(RatSumOver(Ids, c), Len(nodes))))

\* The graphs whose paths are enumerated.
MaxPathNodes == MaxNodes + 1
\* The directed paths without a repeated node, as sequences of node ids.
SimplePaths ==
  {p \in UNION {[1..n -> Ids] : n \in 1..Len(nodes)} :
     /\ \A i \in 1..(Len(p) - 1) : HasEdge(p[i], p[i + 1])
     /\ \A i \in 1..Len(p) : \A j \in 1..Len(p) : i # j => p[i] # p[j]}
\* The shortest ones among the paths of P from s to t.
ShortestPaths(P, s, t) ==
  LET st == {p \in P : p[1] = s /\ p[Len(p)] = t}
  IN  {p \in st : \A q \in st : Len(p) <= Len(q)}
\* The reference betweenness of v: over the ordered pairs (s, t) of other
\* nodes with t reachable from s, the share of the shortest paths through v,
\* over (V - 1)(V - 2) when V > 2, and 0 when V <= 2.
PathBetweenness(P, v) ==
  LET V == Len(nodes)
      others == Ids \ {v}
      share(s, t) ==
        LET sp == ShortestPaths(P, s, t)
        IN  IF s = t \/ sp = {} THEN Zero
            ELSE Rat(Cardinality({p \in sp : \E i \in 1..Len(p) : p[i] = v}),
                     Cardinality(sp))
      total == RatSumOver(others, [s \in others |->
                 RatSumOver(others, [t \in others |-> share(s, t)])])
  IN  IF V <= 2 THEN Zero ELSE RatDivInt(total, (V - 1) * (V - 2))

\* C18: on a graph whose edges all join nodes, the betweenness that
\* calculateAllMetrics returns for every node is its reference betweenness,
\* up to the rounding of the sums (checked on the graphs of at most
\* MaxPathNodes nodes).
C18_BetweennessIsPathShare ==
  (metrics.status = "returned" /\ ~HasUnknownEdge /\ Len(nodes) <= MaxPathNodes) =>
    LET P == SimplePaths
    IN  \A v \in Ids :
          Near(metrics.value[v].betweenness, DFromRat(PathBetweenness(P, v)))

\* calculateAllMetrics returned on the diamond, where two shortest paths
\* join A and D and each passes one of B and C.
C18_Witness ==
  /\ metrics.status = "returned"
  /\ nodes = Diamond.ns /\ edges = Diamond.es
  /\ metrics.value[2].betweenness = DQuotient(1, 12)

\* The reference distance from s to t over the paths of P: the number of
\* edges of a shortest path.
PathDistance(P, s, t) ==
  LET p == CHOOSE q \in ShortestPaths(P, s, t) : TRUE
  IN  Len(p) - 1
\* The nodes other than s that a path of P leads to from s.
ReachableFrom(P, s) == {t \in Ids \ {s} : ShortestPaths(P, s, t) # {}}
IsDiamond == nodes = Diamond.ns /\ edges = Diamond.es

\* C19: on a graph whose edges all join nodes, avgShortestPath is the sum of
\* the directed distances over the ordered pairs (s, t), s # t, with t
\* reachable from s, divided by the number of such pairs, and 0 without such
\* a pair; closeness(s) is the number of nodes reachable from s over the sum
\* of their distances, and 0 when s reaches nobody (checked on the graphs of
\* at most MaxPathNodes nodes).
C19_ShortestPathAverages ==
  (metrics.status = "returned" /\ stats.status = "returned"
     /\ ~HasUnknownEdge /\ Len(nodes) <= MaxPathNodes) =>
    LET P == SimplePaths
        reach == [s \in Ids |-> ReachableFrom(P, s)]
        count == [s \in Ids |-> Cardinality(reach[s])]
        total == [s \in Ids |->
                    SumOver(reach[s], [t \in reach[s] |-> PathDistance(P, s, t)])]
    IN  /\ stats.value.avgShortestPath =
             IF SumOver(Ids, count) = 0 THEN Zero
             ELSE Rat(SumOver(Ids, total), SumOver(Ids, count))
        /\ \A s \in Ids :
             metrics.value[s].closeness =
               IF count[s] = 0 THEN Zero ELSE Rat(count[s], total[s])

\* Both calls returned on the diamond: 5 reachable pairs of total distance
\* 6, and A reaches 3 nodes at total distance 4.
C19_Witness ==
  /\ IsDiamond /\ metrics.status = "returned" /\ stats.status = "returned"
  /\ stats.value.avgShortestPath = Rat(6, 5)
  /\ metrics.value[1].closeness = Rat(3, 4)

\* The share of the largest connected component in the subgraph induced by
\* the node set R: only the links with both ends in R count; 0 for no nodes.
InducedNGC(R) ==
  LET linked == {q \in Linked : q[1] \in R /\ q[2] \in R}
  IN  IF R = {} THEN Zero
      ELSE Rat(MaxOf({Cardinality(ConnectedTo({v}, linked)) : v \in R}),
               Cardinality(R))

\* C20: every point of simulateRobustness, for any strategy, holds the NGC
\* of the subgraph induced by the nodes not removed at its step; the point
\* at ratio 0 has the ngc of getStats and the point at ratio 1 has NGC 0.
C20_InducedSubgraphNGC ==
  points.status = "returned" =>
    /\ \A p \in StepIndexes :
         PointNGC(p) = InducedNGC(RemainingNodeIds(sortedNodeIds, p - 1))
    /\ stats.status = "returned" => PointNGC(1) = stats.value.ngc
    /\ PointNGC(steps + 1) = Zero

\* The sizes of the components calculateNGC counts at point p of the last
\* simulation, on the remaining nodes and the remaining edges of that step.
SizesAt(p) ==
  LET remaining == RemainingNodeIds(sortedNodeIds, p - 1)
      rn == RemainingNodes(nodes, remaining)
      re == RemainingEdges(edges, remaining)
  IN  ComponentSizes(rn, UndirectedAdj(rn, re), 1, {})

\* C21: in every point simulateRobustness returns on a graph with nodes,
\* for any strategy, ngc lies in [0, 1], is 0 only when no node remains, and
\* is at least 1/(number of remaining nodes) otherwise; the searches of
\* calculateNGC count every remaining node in exactly one component: every
\* size is at least 1, the sizes sum to the number of remaining nodes (so
\* the queues are emptied after that many steps), and ngc is the largest
\* size over that number.
C21_NGCRange ==
  (points.status = "returned" /\ nodes # << >>) =>
    \A p \in StepIndexes :
      LET ngc == PointNGC(p)
          n == RemainingCount(p)
          sizes == SizesAt(p)
      IN  /\ IsFinite(ngc) /\ RatLeq(Zero, ngc) /\ RatLeq(ngc, Rat(1, 1))
          /\ ngc = Zero => n = 0
          /\ n > 0 => RatLeq(Rat(1, n), ngc)
          /\ \A c \in 1..Len(sizes) : sizes[c] >= 1
          /\ SumOver(1..Len(sizes), sizes) = n
          /\ n > 0 => ngc = Rat(MaxOf({sizes[c] : c \in 1..Len(sizes)}), n)

\* A random simulation on a graph with edges has a point where some nodes
\* are removed, the others fall into several components, and the NGC is
\* strictly between 0 and 1.
C21_Witness ==
  /\ points.status = "returned" /\ points.strategy = "random"
  /\ edges # << >>
  /\ \E p \in StepIndexes :
       /\ 0 < RemainingCount(p) /\ RemainingCount(p) < Len(nodes)
       /\ Len(SizesAt(p)) >= 2
       /\ \E c \in 1..Len(SizesAt(p)) : SizesAt(p)[c] >= 2
       /\ RatLess(Zero, PointNGC(p)) /\ RatLess(PointNGC(p), Rat(1, 1))
====
